---- MODULE Spec2Model ----
(***************************************************************************)
(* A model of nestjs-prisma's PrismaClientExceptionFilter (the mapping of  *)
(* Prisma error codes to HTTP statuses and messages, for http and graphql  *)
(* request contexts) and of CustomPrismaService (the injectable wrapper    *)
(* around an externally built client).                                     *)
(*                                                                         *)
(* A JavaScript string is a sequence of one-character strings, so that     *)
(* indexOf, substring, replace and trim are computed character by          *)
(* character. An error code is such a string too: it is a key of the       *)
(* mapping objects and a part of the derived message.                      *)
(***************************************************************************)
EXTENDS Integers, Sequences, FiniteSets, TLC

VARIABLES
    heap,        \* the mapping objects: heap[r] is the object at reference r
    filters,     \* the PrismaClientExceptionFilter instances built so far
    providers,   \* the descriptors providePrismaClientExceptionFilter returned
    call,        \* the last catch(exception, host) call: its receiver and arguments
    returned,    \* what that call returned
    superCalls,  \* the arguments of the super.catch calls that call made, in order
    arg,         \* defaultExceptionMessage alone: its argument
    ret,         \* defaultExceptionMessage alone: its result
    services,    \* the CustomPrismaService instances built so far
    clients      \* the client handles: what the application has done to each

otherVars == <<providers, call, returned, superCalls, arg, ret, services, clients>>
vars == <<heap, filters, providers, call, returned, superCalls, arg, ret, services, clients>>

----------------------------------------------------------------------------
(* Bounds of the model *)

\* the longest diagnostic text defaultExceptionMessage is applied to on its own
MaxLen == 5
\* the number of filter instances constructed where catch is given every input
MaxFilters == 1
\* the number of filter instances constructed beside the registration helper
MaxInstances == 2
\* the number of providePrismaClientExceptionFilter calls
MaxProviders == 1
\* the number of CustomPrismaService instances constructed
MaxServices == 3
\* the number of client handles the application holds
MaxClients == 3

----------------------------------------------------------------------------
(* Strings *)

ARROW == "→"
NL == "\n"
SP == " "

\* the characters diagnostic texts are made of
Chars == {ARROW, NL, SP, "a", "b"}

\* the white space String.prototype.trim removes
WhiteSpace == {SP, NL, "\t", "\r"}

Str(n) == UNION {[1..k -> Chars] : k \in 0..n}

\* String.prototype.indexOf(c): the 0-based index of the first c, -1 without one
IndexOf(s, c) ==
    IF \E i \in 1..Len(s) : s[i] = c
    THEN (CHOOSE i \in 1..Len(s) : s[i] = c /\ \A j \in 1..(i - 1) : s[j] # c) - 1
    ELSE -1

\* String.prototype.substring(start): a start below 0 is 0, one above the length
\* is the length
Substring(s, start) ==
    LET from == IF start < 0 THEN 0 ELSE IF start > Len(s) THEN Len(s) ELSE start
    IN  SubSeq(s, from + 1, Len(s))

\* String.prototype.replace(/\n/g, ''): every line feed removed
RECURSIVE ReplaceNL(_)
ReplaceNL(s) ==
    IF s = <<>> THEN <<>>
    ELSE IF Head(s) = NL THEN ReplaceNL(Tail(s))
    ELSE <<Head(s)>> \o ReplaceNL(Tail(s))

RECURSIVE TrimStart(_)
TrimStart(s) ==
    IF s # <<>> /\ Head(s) \in WhiteSpace THEN TrimStart(Tail(s)) ELSE s

RECURSIVE TrimEnd(_)
TrimEnd(s) ==
    IF s # <<>> /\ s[Len(s)] \in WhiteSpace THEN TrimEnd(SubSeq(s, 1, Len(s) - 1)) ELSE s

\* String.prototype.trim()
Trim(s) == TrimEnd(TrimStart(s))

----------------------------------------------------------------------------
(* Error codes and statuses *)

P2000 == <<"P", "2", "0", "0", "0">>
P2002 == <<"P", "2", "0", "0", "2">>
P2025 == <<"P", "2", "0", "2", "5">>
P2999 == <<"P", "2", "9", "9", "9">>

\* HttpStatus.BAD_REQUEST, HttpStatus.CONFLICT, HttpStatus.NOT_FOUND
BAD_REQUEST == 400
CONFLICT == 409
NOT_FOUND == 404

\* a Prisma.PrismaClientKnownRequestError: its code and its message
Exception(code, message) == [code |-> code, message |-> message]

----------------------------------------------------------------------------
(* defaultExceptionMessage *)

\* a slip: the line feed is looked for in the whole message
DefaultExceptionMessageWholeText(exception) ==
    <<"[">> \o exception.code \o <<"]", ":", SP>>
        \o Trim(ReplaceNL(Substring(exception.message, IndexOf(exception.message, NL))))

DefaultExceptionMessage(exception) ==
    LET shortMessage == Substring(exception.message, IndexOf(exception.message, ARROW))
    IN  <<"[">> \o exception.code \o <<"]", ":", SP>>
            \o Trim(ReplaceNL(Substring(shortMessage, IndexOf(shortMessage, NL))))

----------------------------------------------------------------------------
(* The mapping objects *)

\* no object: null, or undefined
Null == 0

\* the initialiser of the field errorCodesStatusMapping
DefaultStatusMapping ==
    (P2000 :> BAD_REQUEST) @@ (P2002 :> CONFLICT) @@ (P2025 :> NOT_FOUND)

\* the initialiser of the field errorCodesMessageMapping: {}
DefaultMessageMapping == <<>>

\* an object literal evaluated: a new object, at reference Len of the new heap
New(h, owner, map) == Append(h, [owner |-> owner, map |-> map])

\* a slip: the properties target has already are kept
MergeTargetWins(target, source) ==
    [k \in DOMAIN target \cup DOMAIN source |->
        IF k \in DOMAIN target THEN target[k] ELSE source[k]]

\* the own properties of source copied over those of target
Merge(target, source) ==
    [k \in DOMAIN target \cup DOMAIN source |->
        IF k \in DOMAIN source THEN source[k] ELSE target[k]]

\* a slip: the arguments of Object.assign swapped, so that the caller's object
\* takes the defaults it lacks and becomes the filter's mapping
ObjectAssignSwapped(h, target, source) ==
    [heap |-> [h EXCEPT ![source].map = Merge(@, h[target].map)], ref |-> source]

\* Object.assign(target, source): target is changed in place and returned
ObjectAssign(h, target, source) ==
    [heap |-> [h EXCEPT ![target].map = Merge(@, h[source].map)], ref |-> target]

\* new PrismaClientExceptionFilter(applicationRef, errorCodesStatusMapping,
\* errorCodesMessageMapping): the two fields are initialised with new objects,
\* then each override that is an object is assigned over its field
Constructor(h, errorCodesStatusMapping, errorCodesMessageMapping) ==
    LET h1 == New(h, "filter", DefaultStatusMapping)
        status == Len(h1)
        h2 == New(h1, "filter", DefaultMessageMapping)
        message == Len(h2)
        a1 == IF errorCodesStatusMapping # Null
              THEN ObjectAssign(h2, status, errorCodesStatusMapping)
              ELSE [heap |-> h2, ref |-> status]
        a2 == IF errorCodesMessageMapping # Null
              THEN ObjectAssign(a1.heap, message, errorCodesMessageMapping)
              ELSE [heap |-> a1.heap, ref |-> message]
    IN  [heap |-> a2.heap,
         this |-> [errorCodesStatusMapping |-> a1.ref,
                   errorCodesMessageMapping |-> a2.ref]]

----------------------------------------------------------------------------
(* catch *)

\* the value undefined
Undefined == [is |-> "undefined"]

\* the exception object catch was given, itself, with the fields it has
TheException(exception) ==
    [is |-> "exception", code |-> exception.code, message |-> exception.message]

\* new HttpException(response, status)
HttpException(response, status) ==
    [is |-> "HttpException", response |-> response, status |-> status]

\* this.errorCodesMessageMapping[exception.code] || this.defaultExceptionMessage(exception)
Message(messageMapping, exception) ==
    IF exception.code \in DOMAIN messageMapping /\ messageMapping[exception.code] # <<>>
    THEN messageMapping[exception.code]
    ELSE DefaultExceptionMessage(exception)

\* new HttpException({ statusCode, message }, statusCode)
Mapped(statusCode, message) ==
    HttpException([statusCode |-> statusCode, message |-> message], statusCode)

\* a slip: the http branch never wraps the exception
CatchHttpNeverWraps(statusMapping, message, exception) ==
    [returned |-> Undefined, superCalls |-> <<TheException(exception)>>]

\* a slip: the http branch returns an unmapped exception as the graphql branch does
CatchHttpReturnsUnmapped(statusMapping, message, exception) ==
    IF exception.code \notin DOMAIN statusMapping
    THEN [returned |-> TheException(exception), superCalls |-> <<>>]
    ELSE [returned |-> Undefined,
          superCalls |-> <<Mapped(statusMapping[exception.code], message)>>]

\* the branch host.getType() === 'http': the value returned and the super.catch
\* calls made (super.catch returns nothing)
CatchHttp(statusMapping, message, exception) ==
    IF exception.code \notin DOMAIN statusMapping
    THEN [returned |-> Undefined, superCalls |-> <<TheException(exception)>>]
    ELSE [returned |-> Undefined,
          superCalls |-> <<Mapped(statusMapping[exception.code], message)>>]

\* a slip: the graphql branch maps an unmapped exception to a server error
CatchGraphqlWrapsUnmapped(statusMapping, message, exception) ==
    IF exception.code \notin DOMAIN statusMapping
    THEN [returned |-> Mapped(500, message), superCalls |-> <<>>]
    ELSE [returned |-> Mapped(statusMapping[exception.code], message), superCalls |-> <<>>]

\* a slip: the graphql branch hands the mapped exception to super.catch as the
\* http branch does
CatchGraphqlDelegates(statusMapping, message, exception) ==
    IF exception.code \notin DOMAIN statusMapping
    THEN [returned |-> TheException(exception), superCalls |-> <<>>]
    ELSE [returned |-> Undefined,
          superCalls |-> <<Mapped(statusMapping[exception.code], message)>>]

\* the branch host.getType() === 'graphql'
CatchGraphql(statusMapping, message, exception) ==
    IF exception.code \notin DOMAIN statusMapping
    THEN [returned |-> TheException(exception), superCalls |-> <<>>]
    ELSE [returned |-> Mapped(statusMapping[exception.code], message), superCalls |-> <<>>]

\* catchClientKnownRequestError(exception, host) on the filter this; with a host
\* of another type no branch is taken and the function ends without a return
CatchClientKnownRequestError(h, this, exception, hostType) ==
    LET statusMapping == h[this.errorCodesStatusMapping].map
        message == Message(h[this.errorCodesMessageMapping].map, exception)
    IN  IF hostType = "http" THEN CatchHttp(statusMapping, message, exception)
        ELSE IF hostType = "graphql" THEN CatchGraphql(statusMapping, message, exception)
        ELSE [returned |-> Undefined, superCalls |-> <<>>]

----------------------------------------------------------------------------
(* CustomPrismaService *)

\* a slip: client declared without an access modifier is a plain parameter, and
\* the field is never set
CustomPrismaServicePlainParameter(client) == [client |-> Null]

\* new CustomPrismaService(client): the parameter property client
CustomPrismaService(client) == [client |-> client]

----------------------------------------------------------------------------
(* The inputs *)

\* an optional argument: <<>> when it is omitted or null, <<v>> when it is v
Opt(S) == {<<>>} \cup {<<v>> : v \in S}

Custom == <<"c", "u", "s", "t", "o", "m">>

\* the status overrides callers pass: {}, one that adds a code, one that
\* replaces a default
StatusOverrides == {<<>>, P2999 :> 418, P2000 :> 418}

\* the message overrides callers pass
MessageOverrides == {P2000 :> Custom, P2000 :> <<>>, P2999 :> Custom, P2002 :> Custom}

Codes == {P2000, P2002, P2025, P2999}

\* "a→ \n a b\n", and a text with neither an arrow nor a line feed
Messages == {<<"a", ARROW, SP, NL, SP, "a", SP, "b", NL>>, <<"a", "b">>}

HostTypes == {"http", "graphql", "rpc"}

\* the inputs of the runs with the registration helper
FewStatusOverrides == {P2999 :> 418}
FewMessageOverrides == {P2000 :> Custom}
FewCodes == {P2999}
FewMessages == {<<ARROW, NL, "a">>}
FewHostTypes == {"http", "graphql"}

----------------------------------------------------------------------------
(* The actions *)

NoCall == [this |-> 0, exception |-> Exception(<<>>, <<>>), hostType |-> "none"]

\* an optional object literal evaluated by the caller: the heap and the reference
Literal(h, opt) ==
    IF opt = <<>> THEN [heap |-> h, ref |-> Null]
    ELSE [heap |-> New(h, "caller", opt[1]), ref |-> Len(h) + 1]

\* the map of the object at a reference, as an optional value
Given(h, ref) == IF ref = Null THEN <<>> ELSE <<h[ref].map>>

\* a filter built from the references s and m, which may be Null; given keeps
\* what the two arguments held when the constructor was entered
Build(h, s, m) ==
    LET c == Constructor(h, s, m)
    IN  /\ heap' = c.heap
        /\ filters' = Append(filters,
              [this |-> c.this, given |-> [status |-> Given(h, s), message |-> Given(h, m)]])

\* new PrismaClientExceptionFilter(httpAdapter, s, m), with s and m written as
\* object literals, null or nothing
Construct(s, m) ==
    /\ LET l1 == Literal(heap, s)
           l2 == Literal(l1.heap, m)
       IN  Build(l2.heap, l1.ref, l2.ref)
    /\ UNCHANGED otherVars

\* providePrismaClientExceptionFilter(s, m)
Provide(s, m) ==
    /\ Len(providers) < MaxProviders
    /\ LET l1 == Literal(heap, s)
           l2 == Literal(l1.heap, m)
       IN  /\ heap' = l2.heap
           /\ providers' = Append(providers,
                 [errorCodesStatusMapping |-> l1.ref, errorCodesmessageMapping |-> l2.ref])
    /\ UNCHANGED <<filters, call, returned, superCalls, arg, ret, services, clients>>

\* the container calls the useFactory of the descriptor p
UseFactory(p) ==
    /\ Build(heap, providers[p].errorCodesStatusMapping, providers[p].errorCodesmessageMapping)
    /\ UNCHANGED otherVars

\* filters[f].catch(exception, host), host.getType() being hostType
Catch(f, exception, hostType) ==
    LET r == CatchClientKnownRequestError(heap, filters[f].this, exception, hostType)
    IN  /\ call' = [this |-> f, exception |-> exception, hostType |-> hostType]
        /\ returned' = r.returned
        /\ superCalls' = r.superCalls
        /\ UNCHANGED <<heap, filters, providers, arg, ret, services, clients>>

\* this.defaultExceptionMessage(arg), on its own
DeriveMessage ==
    /\ ret = <<>>
    /\ ret' = DefaultExceptionMessage(arg)
    /\ UNCHANGED <<heap, filters, providers, call, returned, superCalls, arg, services, clients>>

\* the application builds a client
NewClient ==
    /\ Len(clients) < MaxClients
    /\ clients' = Append(clients, [connected |-> FALSE])
    /\ UNCHANGED <<heap, filters, providers, call, returned, superCalls, arg, ret, services>>

\* the application connects or disconnects the client c
Toggle(c) ==
    /\ clients' = [clients EXCEPT ![c].connected = ~@]
    /\ UNCHANGED <<heap, filters, providers, call, returned, superCalls, arg, ret, services>>

\* the container resolves CUSTOM_PRISMA_CLIENT to the client c and builds the service
Inject(c) ==
    /\ Len(services) < MaxServices
    /\ services' = Append(services, [this |-> CustomPrismaService(c), given |-> c])
    /\ UNCHANGED <<heap, filters, providers, call, returned, superCalls, arg, ret, clients>>

----------------------------------------------------------------------------
(* The specifications *)

Init ==
    /\ heap = <<>>
    /\ filters = <<>>
    /\ providers = <<>>
    /\ call = NoCall
    /\ returned = Undefined
    /\ superCalls = <<>>
    /\ arg = Exception(<<>>, <<>>)
    /\ ret = <<>>
    /\ services = <<>>
    /\ clients = <<>>

\* filters built directly, and catch on every input
Next ==
    \/ /\ Len(filters) < MaxFilters
       /\ \E s \in Opt(StatusOverrides), m \in Opt(MessageOverrides) : Construct(s, m)
    \/ \E f \in 1..Len(filters), code \in Codes, message \in Messages, hostType \in HostTypes :
          Catch(f, Exception(code, message), hostType)

Spec == Init /\ [][Next]_vars

\* filters built directly and by the registration helper's factory, sharing
\* the override objects the helper was given
NextDI ==
    \/ /\ Len(filters) < MaxInstances
       /\ \E s \in Opt(FewStatusOverrides), m \in Opt(FewMessageOverrides) : Construct(s, m)
    \/ \E s \in Opt(FewStatusOverrides), m \in Opt(FewMessageOverrides) : Provide(s, m)
    \/ /\ Len(filters) < MaxInstances
       /\ \E p \in 1..Len(providers) : UseFactory(p)
    \/ \E f \in 1..Len(filters), code \in FewCodes, message \in FewMessages,
          hostType \in FewHostTypes :
          Catch(f, Exception(code, message), hostType)

SpecDI == Init /\ [][NextDI]_vars

\* defaultExceptionMessage on every code and every text of at most MaxLen characters
InitMessage ==
    /\ heap = <<>>
    /\ filters = <<>>
    /\ providers = <<>>
    /\ call = NoCall
    /\ returned = Undefined
    /\ superCalls = <<>>
    /\ arg \in {Exception(code, message) : code \in {P2002, P2999}, message \in Str(MaxLen)}
    /\ ret = <<>>
    /\ services = <<>>
    /\ clients = <<>>

NextMessage == DeriveMessage

SpecMessage == InitMessage /\ [][NextMessage]_vars

\* the client wrapper
NextService ==
    \/ NewClient
    \/ \E c \in 1..Len(clients) : Toggle(c)
    \/ \E c \in 1..Len(clients) : Inject(c)

SpecService == Init /\ [][NextService]_vars

----------------------------------------------------------------------------
(* The claims *)

\* the effective mappings of the filter f
StatusMappingOf(f) == heap[filters[f].this.errorCodesStatusMapping].map
MessageMappingOf(f) == heap[filters[f].this.errorCodesMessageMapping].map

\* catch has been called
Called == call.this # 0

\* the last call's exception has a code the called filter maps to a status
CalledMapped == Called /\ call.exception.code \in DOMAIN StatusMappingOf(call.this)
CalledUnmapped == Called /\ call.exception.code \notin DOMAIN StatusMappingOf(call.this)

\* the status the called filter maps the last call's exception to
CalledStatus == StatusMappingOf(call.this)[call.exception.code]

\* C1: a mapped code in an http context: super.catch is called exactly once, with a
\* new HttpException whose status and whose body's statusCode are the mapped status
C1_HttpMapped ==
    (CalledMapped /\ call.hostType = "http") =>
        /\ Len(superCalls) = 1
        /\ superCalls[1].is = "HttpException"
        /\ superCalls[1].status = CalledStatus
        /\ superCalls[1].response.statusCode = CalledStatus

C1_Witness ==
    /\ CalledMapped /\ call.hostType = "http"
    /\ call.exception.code = P2002
    /\ superCalls = <<Mapped(CONFLICT, superCalls[1].response.message)>>

\* C2: an unmapped code in an http context, with or without a message entry: the
\* exception itself is handed to super.catch, and no HttpException is built
C2_HttpUnmapped ==
    (CalledUnmapped /\ call.hostType = "http") =>
        /\ superCalls = <<TheException(call.exception)>>
        /\ returned = Undefined

C2_Witness ==
    /\ CalledUnmapped /\ call.hostType = "http"
    /\ call.exception.code \in DOMAIN MessageMappingOf(call.this)
    /\ superCalls = <<TheException(call.exception)>>

\* C3: an unmapped code in a graphql context: the exception itself is returned,
\* its fields as they were, and super.catch is not called
C3_GraphqlUnmapped ==
    (CalledUnmapped /\ call.hostType = "graphql") =>
        /\ returned = TheException(call.exception)
        /\ superCalls = <<>>

C3_Witness ==
    /\ CalledUnmapped /\ call.hostType = "graphql"
    /\ call.exception.code = P2999
    /\ returned.is = "exception"

\* the keys and values a mapping must have, given its defaults and the override
\* the constructor was given
MergedAsDocumented(effective, defaults, given) ==
    LET override == IF given = <<>> THEN <<>> ELSE given[1]
    IN  /\ \A k \in DOMAIN override : k \in DOMAIN effective /\ effective[k] = override[k]
        /\ \A k \in DOMAIN defaults \ DOMAIN override :
              k \in DOMAIN effective /\ effective[k] = defaults[k]
        /\ DOMAIN effective \subseteq DOMAIN defaults \cup DOMAIN override

\* C4: a filter's two mappings are the defaults with the caller's overrides on
\* top: the caller's value for each key the caller gave, the default for each
\* other default key, and no other key
C4_MergeOverDefaults ==
    \A f \in 1..Len(filters) :
        /\ MergedAsDocumented(StatusMappingOf(f), DefaultStatusMapping, filters[f].given.status)
        /\ MergedAsDocumented(MessageMappingOf(f), DefaultMessageMapping, filters[f].given.message)

C4_Witness ==
    \E f \in 1..Len(filters) :
        /\ filters[f].given.status = <<P2000 :> 418>>
        /\ filters[f].given.message = <<P2002 :> Custom>>
        /\ StatusMappingOf(f) = (P2000 :> 418) @@ (P2002 :> CONFLICT) @@ (P2025 :> NOT_FOUND)
        /\ MessageMappingOf(f) = (P2002 :> Custom)

\* the message of the HttpException the last call built
CalledMessage ==
    IF call.hostType = "http" THEN superCalls[1].response.message
    ELSE returned.response.message

\* C5: for a mapped code the message is the message mapping's entry whenever
\* there is one, the empty string included, and the derived message otherwise
C5_EntryWhenPresent ==
    (CalledMapped /\ call.hostType \in {"http", "graphql"}) =>
        CalledMessage =
            IF call.exception.code \in DOMAIN MessageMappingOf(call.this)
            THEN MessageMappingOf(call.this)[call.exception.code]
            ELSE DefaultExceptionMessage(call.exception)

\* the first index of c in s after index i, 0 without one
FirstAfter(s, c, i) ==
    IF \E j \in (i + 1)..Len(s) : s[j] = c
    THEN CHOOSE j \in (i + 1)..Len(s) : s[j] = c /\ \A k \in (i + 1)..(j - 1) : s[k] # c
    ELSE 0

\* s without the white space at its two ends
Trimmed(s) ==
    LET inked == {i \in 1..Len(s) : s[i] \notin WhiteSpace}
    IN  IF inked = {} THEN <<>>
        ELSE SubSeq(s, CHOOSE i \in inked : \A j \in inked : i <= j,
                       CHOOSE i \in inked : \A j \in inked : i >= j)

NotNL(c) == c # NL

\* the detail of a diagnostic text: what follows the first line feed after the
\* first arrow, its line feeds removed, trimmed
Detail(message) ==
    LET arrow == FirstAfter(message, ARROW, 0)
        feed == FirstAfter(message, NL, arrow)
    IN  Trimmed(SelectSeq(SubSeq(message, feed + 1, Len(message)), NotNL))

WellFormed(message) ==
    /\ FirstAfter(message, ARROW, 0) # 0
    /\ FirstAfter(message, NL, FirstAfter(message, ARROW, 0)) # 0

\* C6: for a text with an arrow and a line feed after it, the derived message is
\* "[code]: " and the detail
C6_DerivedMessage ==
    (ret # <<>> /\ WellFormed(arg.message)) =>
        ret = <<"[">> \o arg.code \o <<"]", ":", SP>> \o Detail(arg.message)

C6_Witness ==
    /\ arg = Exception(P2002, <<NL, "b", ARROW, NL, "a">>)
    /\ ret = <<"[", "P", "2", "0", "0", "2", "]", ":", SP, "a">>

\* C7: in a graphql context super.catch is never called, and for a mapped code a
\* new HttpException is returned whose status and whose body's statusCode are
\* the mapped status and whose body's message is the selected message
C7_GraphqlReturns ==
    (Called /\ call.hostType = "graphql") =>
        /\ superCalls = <<>>
        /\ CalledMapped =>
              returned = Mapped(CalledStatus,
                                Message(MessageMappingOf(call.this), call.exception))

C7_Witness ==
    /\ CalledMapped /\ call.hostType = "graphql"
    /\ call.exception.code = P2999
    /\ returned.is = "HttpException" /\ returned.status = 418
    /\ returned.response.message = Custom

\* C8: in a context that is neither http nor graphql the call returns the
\* exception itself or hands it to super.catch
C8_OtherContext ==
    (Called /\ call.hostType \notin {"http", "graphql"}) =>
        \/ returned = TheException(call.exception)
        \/ superCalls = <<TheException(call.exception)>>

\* C9: the field client of a service is the handle its constructor was given,
\* and building a service does nothing to a handle
C9_ClientIsTheHandle ==
    /\ [](\A i \in 1..Len(services) : services[i].this.client = services[i].given)
    /\ [][Len(services') > Len(services) => clients' = clients]_vars

C9_Witness ==
    /\ Len(services) = 2
    /\ services[1].this.client = 2 /\ services[2].this.client = 1
    /\ clients[1].connected /\ ~clients[2].connected

\* C10: what a step leaves alone: each filter built before it, with its two
\* mappings, and each object a caller passed as an override
C10_FixedAfterConstruction ==
    [][/\ \A f \in 1..Len(filters) :
             /\ filters'[f] = filters[f]
             /\ heap'[filters[f].this.errorCodesStatusMapping] =
                   heap[filters[f].this.errorCodesStatusMapping]
             /\ heap'[filters[f].this.errorCodesMessageMapping] =
                   heap[filters[f].this.errorCodesMessageMapping]
       /\ \A r \in 1..Len(heap) : heap[r].owner = "caller" => heap'[r] = heap[r]]_vars

\* two filters built by the factory of one descriptor, and catch called
C10_Witness ==
    /\ Called
    /\ Len(filters) = 2 /\ Len(providers) = 1
    /\ providers[1].errorCodesStatusMapping # Null
    /\ providers[1].errorCodesmessageMapping # Null
    /\ Cardinality({r \in 1..Len(heap) : heap[r].owner = "caller"}) = 2
    /\ \A f \in 1..2 : filters[f].given.status # <<>> /\ filters[f].given.message # <<>>

====
